---- MODULE Spec2Model ----
(***************************************************************************)
(* A model of lib/bpUtil.js: the search-term extractor                     *)
(* (getSearchTermFromURI), the two wrappers around the effective-TLD       *)
(* service (getBaseDomainFromHost, getPublicSuffix) and the truncated      *)
(* SHA-256 key (getHash, getKeyForHost, getKeyForQuery).                   *)
(*                                                                         *)
(* JavaScript strings are TLA+ strings; the String methods the code calls  *)
(* (indexOf, substr, slice, split, toLowerCase, replace, charCodeAt,       *)
(* toString(16)) and the globals it calls (decodeURI, and the              *)
(* decodeURIComponent behind querystring.parse) are operators that compute *)
(* what the ECMAScript definitions compute.  A call either returns a value *)
(* or throws: an outcome is a record [raised, value].                      *)
(***************************************************************************)
EXTENDS Integers, Sequences, FiniteSets

VARIABLES
  fn,          \* the exported function the add-on called last ("none": idle)
  aURI,        \* its argument: [host, path] (aHost is aURI.host)
  aString,     \* its argument when it takes a plain string (getKeyForQuery)
  eTLDService, \* what the effective-TLD service answers during the call
  hashSeed,    \* which SHA-256 stand-in answers during the call
  locals,      \* getSearchTermFromURI's let-variables when it returned or threw
  ret          \* the outcome of the call: [raised, value]

vars == <<fn, aURI, aString, eTLDService, hashSeed, locals, ret>>

(***************************************************************************)
(* Bounds of the model.                                                    *)
(***************************************************************************)
MaxLabels == 3   \* labels in a sampled host name
MaxParams == 2   \* key=value chunks in a sampled query string
MaxSeed == 2     \* SHA-256 stand-ins 0..MaxSeed

(***************************************************************************)
(* Outcomes and JavaScript values.                                         *)
(***************************************************************************)
Return(v) == [raised |-> FALSE, value |-> v]
Throw(e) == [raised |-> TRUE, value |-> e]

Undefined == [type |-> "undefined", val |-> ""]
JSString(s) == [type |-> "string", val |-> s]
\* ToString(x): what a String method or decodeURI makes of its argument.
ToString(x) == IF x.type = "undefined" THEN "undefined" ELSE x.val

Min(a, b) == IF a <= b THEN a ELSE b
Max(a, b) == IF a >= b THEN a ELSE b

(***************************************************************************)
(* String.prototype methods, with JavaScript's 0-based positions.          *)
(***************************************************************************)
\* s.indexOf(t): the first position where t occurs in s, or -1.
IndexOf(s, t) ==
  LET hits == {i \in 0..(Len(s) - Len(t)) : SubSeq(s, i + 1, i + Len(t)) = t}
  IN IF hits = {} THEN -1 ELSE CHOOSE i \in hits : \A j \in hits : i <= j

\* substr taken for slice: the second argument is an end position, and a
\* negative one counts from the end.
SubstrAsSlice(s, start, length) ==
  SubSeq(s, start + 1,
         IF length < 0 THEN Len(s) + length ELSE Min(length, Len(s)))

\* s.substr(start, length), start >= 0: a negative length yields "".
Substr(s, start, length) ==
  SubSeq(s, start + 1, Min(start + Max(length, 0), Len(s)))

\* s.substr(start), start >= 0.
SubstrFrom(s, start) == SubSeq(s, start + 1, Len(s))

\* s.slice(begin, end): a negative index counts from the end.
Slice(s, begin, end) ==
  LET from == IF begin < 0 THEN Max(Len(s) + begin, 0) ELSE Min(begin, Len(s))
      to == IF end < 0 THEN Max(Len(s) + end, 0) ELSE Min(end, Len(s))
  IN SubSeq(s, from + 1, to)

\* s.slice(begin).
SliceFrom(s, begin) == Slice(s, begin, Len(s))

\* s.split(sep) for a one-character separator: "".split(sep) is [""].
RECURSIVE Split(_, _)
Split(s, sep) ==
  LET i == IndexOf(s, sep)
  IN IF i = -1 THEN <<s>>
     ELSE <<SubSeq(s, 1, i)>> \o Split(SubstrFrom(s, i + 1), sep)

\* array.join(sep).
RECURSIVE Join(_, _)
Join(parts, sep) ==
  IF Len(parts) = 0 THEN ""
  ELSE IF Len(parts) = 1 THEN parts[1]
  ELSE parts[1] \o sep \o Join(Tail(parts), sep)

\* The printable ASCII characters in code order: codes 32 (space) to 95 (_),
\* and codes 97 (a) to 126 (~).  Code 96, the grave accent, cannot be written
\* in a TLA+ string and is outside the alphabet of the model.
AsciiLow ==
  " !\"#$%&'()*+,-./0123456789:;<=>?@ABCDEFGHIJKLMNOPQRSTUVWXYZ[\\]^_"
AsciiHigh == "abcdefghijklmnopqrstuvwxyz{|}~"

\* The code of character c, which is at position low of AsciiLow or, when low
\* is -1, in AsciiHigh.
CodeAt(c, low) == IF low # -1 THEN 32 + low ELSE 97 + IndexOf(AsciiHigh, c)

\* c.charCodeAt(0) for a character c of the alphabet.
CharCodeAt(c) == CodeAt(c, IndexOf(AsciiLow, c))

\* String.fromCharCode(n) for a code n of the alphabet.
FromCharCode(n) ==
  CASE n >= 32 /\ n <= 95 -> SubSeq(AsciiLow, n - 31, n - 31)
    [] n >= 97 /\ n <= 126 -> SubSeq(AsciiHigh, n - 96, n - 96)

\* s.toLowerCase(): A-Z (65..90) become a-z, every other character stays.
LowerChar(c, n) == IF n >= 65 /\ n <= 90 THEN FromCharCode(n + 32) ELSE c

RECURSIVE ToLowerCase(_)
ToLowerCase(s) ==
  IF s = "" THEN ""
  ELSE LowerChar(Head(s), CharCodeAt(Head(s))) \o ToLowerCase(Tail(s))

\* A replace that replaces every occurrence, as a global regular expression
\* would.
RECURSIVE ReplaceAll(_, _, _)
ReplaceAll(s, pattern, replacement) ==
  LET i == IndexOf(s, pattern)
  IN IF i = -1 THEN s
     ELSE SubSeq(s, 1, i) \o replacement
            \o ReplaceAll(SubSeq(s, i + Len(pattern) + 1, Len(s)), pattern,
                          replacement)

\* s.replace(pattern, replacement) with a string pattern: the first occurrence
\* only.
Replace(s, pattern, replacement) ==
  LET i == IndexOf(s, pattern)
  IN IF i = -1 THEN s
     ELSE SubSeq(s, 1, i) \o replacement \o SubstrFrom(s, i + Len(pattern))

(***************************************************************************)
(* Number.prototype.toString(16) and the URI decoding globals.             *)
(***************************************************************************)
HexDigits == "0123456789abcdef"

\* n.toString(16) for an integer n >= 0: lowercase digits, no padding.
RECURSIVE ToString16(_)
ToString16(n) ==
  IF n < 16 THEN SubSeq(HexDigits, n + 1, n + 1)
  ELSE ToString16(n \div 16) \o SubSeq(HexDigits, (n % 16) + 1, (n % 16) + 1)

\* The value of a hexadecimal digit of either case, -1 for any other character.
HexValue(c) == IF c = "" THEN -1 ELSE IndexOf(HexDigits, ToLowerCase(c))

\* The characters decodeURI leaves escaped: uriReserved plus "#".
UriReservedPlusPound == ";/?:@&=+$,#"

\* ECMAScript's Decode(string, reservedSet), behind decodeURI and
\* decodeURIComponent.  A "%" that is not followed by two hexadecimal digits
\* throws URIError; so does an escaped byte >= 0x80 that cannot start a UTF-8
\* sequence (10xxxxxx, 11111xxx) or whose continuation bytes are cut off by
\* the end of the string.  An escaped byte < 0x80 becomes its character,
\* unless the character is in reservedSet: then the escape is kept as
\* written.  (A complete multi-byte sequence decodes to a character outside
\* the alphabet of the model; no sampled input holds one.)
RECURSIVE Decode(_, _)

\* The outcome when the first character, written as text, is followed by rest.
DecodeThen(text, rest) ==
  IF rest.raised THEN rest ELSE Return(text \o rest.value)

\* s starts with "%"; h1 and h2 are the values of the two characters after it.
DecodeEscape(s, reservedSet, h1, h2) ==
  LET B == 16 * h1 + h2
      n == CASE B >= 240 -> 4 [] B >= 224 -> 3 [] OTHER -> 2
  IN CASE Len(s) < 3 \/ h1 = -1 \/ h2 = -1 -> Throw("URIError")
       [] Len(s) >= 3 /\ h1 # -1 /\ h2 # -1 /\ B < 128 ->
            DecodeThen(IF IndexOf(reservedSet, FromCharCode(B)) # -1
                       THEN SubSeq(s, 1, 3) ELSE FromCharCode(B),
                       Decode(SubstrFrom(s, 3), reservedSet))
       [] Len(s) >= 3 /\ h1 # -1 /\ h2 # -1 /\ B >= 128
            /\ (B < 192 \/ B >= 248 \/ Len(s) < 3 * n) -> Throw("URIError")

Decode(s, reservedSet) ==
  IF s = "" THEN Return("")
  ELSE IF Head(s) # "%"
  THEN DecodeThen(Head(s), Decode(Tail(s), reservedSet))
  ELSE DecodeEscape(s, reservedSet,
                    HexValue(SubSeq(s, 2, 2)), HexValue(SubSeq(s, 3, 3)))

decodeURI(s) == Decode(s, UriReservedPlusPound)
decodeURIComponent(s) == Decode(s, "")

(***************************************************************************)
(* The platform's querystring module: parse(query) splits query at "&",    *)
(* each chunk at "=", and unescapes (decodeURIComponent) the parameter and *)
(* the value; a "+" is left as it is.  A parameter met once maps to its    *)
(* value, a parameter met again to the array of its values.  The object    *)
(* is modelled as the sequence of its [parameter, value] chunks.           *)
(***************************************************************************)
unescape(s) == decodeURIComponent(s)

\* The object after one chunk, given the outcomes of unescaping its parameter
\* and its value and of parsing the chunks after it.
Chunk(parameter, value, rest) ==
  IF parameter.raised THEN parameter
  ELSE IF value.raised THEN value
  ELSE IF rest.raised THEN rest
  ELSE Return(<<[parameter |-> parameter.value, value |-> value.value]>>
                \o rest.value)

\* chunk.split(assignment) is pair: the parameter is pair[0], the value is the
\* rest joined again.
Pair(pair, rest) ==
  Chunk(unescape(pair[1]), unescape(Join(Tail(pair), "=")), rest)

RECURSIVE ParseChunks(_)
ParseChunks(chunks) ==
  IF Len(chunks) = 0 THEN Return(<<>>)
  ELSE Pair(Split(chunks[1], "="), ParseChunks(Tail(chunks)))

\* querystring.parse(query): an outcome whose value is the parsed object.
Parse(query) ==
  IF Len(query) = 0 THEN Return(<<>>) ELSE ParseChunks(Split(query, "&"))

\* The values object q holds for parameter name, in the order met.
RECURSIVE ValuesOf(_, _)
ValuesOf(q, name) ==
  IF Len(q) = 0 THEN <<>>
  ELSE (IF q[1].parameter = name THEN <<q[1].value>> ELSE <<>>)
         \o ValuesOf(Tail(q), name)

\* q[name]: undefined, a string, or an array (whose string form joins its
\* elements with ",").
Property(values) ==
  IF Len(values) = 0 THEN Undefined
  ELSE IF Len(values) = 1 THEN JSString(values[1])
  ELSE [type |-> "array", val |-> Join(values, ",")]

GetParam(q, name) == Property(ValuesOf(q, name))

(***************************************************************************)
(* The effective-TLD service (nsIEffectiveTLDService) is outside the       *)
(* module: during a call it answers each lookup with a value or by         *)
(* throwing.  TruePublicSuffix and TrueBaseDomain are the answers of a     *)
(* service that works, over a small public-suffix list; the service may    *)
(* also fail, or answer something else.                                    *)
(***************************************************************************)
PublicSuffixList == {"com", "org", "net", "uk", "co.uk"}

\* The end of a host name from its k-th label on.
DomainEnd(labels, k) == Join(SubSeq(labels, k, Len(labels)), ".")

\* The label at which the public suffix of a host starts: the longest listed
\* suffix, or the last label when no suffix is listed.
SuffixStart(labels) ==
  LET listed == {k \in 1..Len(labels) : DomainEnd(labels, k) \in PublicSuffixList}
  IN IF listed = {} THEN Len(labels)
     ELSE CHOOSE k \in listed : \A j \in listed : k <= j

TruePublicSuffix(host) ==
  IF host = "" THEN Throw("NS_ERROR_INVALID_ARG")
  ELSE Return(DomainEnd(Split(host, "."), SuffixStart(Split(host, "."))))

TrueBaseDomain(host) ==
  LET labels == Split(host, ".")
      k == SuffixStart(labels)
  IN IF host = "" THEN Throw("NS_ERROR_INVALID_ARG")
     ELSE IF k = 1 THEN Throw("NS_ERROR_INSUFFICIENT_DOMAIN_LEVELS")
     ELSE Return(DomainEnd(labels, k - 1))

\* A lookup the call does not make.
NotAsked == Throw("not asked")

\* What eTLDService.getBaseDomainFromHost(host) may answer.
BaseDomainAnswers(host) ==
  {TrueBaseDomain(host), Throw("NS_ERROR_FAILURE"),
   Return("toString.com"), Return("comcast.net")}

\* What eTLDService.getPublicSuffix(uri) may answer.
PublicSuffixAnswers(host) ==
  {TruePublicSuffix(host), Throw("NS_ERROR_FAILURE"), Return("com")}

(***************************************************************************)
(* lib/bpUtil.js                                                           *)
(***************************************************************************)
\* getBaseDomainFromHost without its try/catch.
UncaughtBaseDomain(aHost, service) == service.getBaseDomainFromHost

\* getPublicSuffix without its try/catch.
UncaughtPublicSuffix(uri, service) == service.getPublicSuffix

\* try { etld = eTLDService.getBaseDomainFromHost(aHost) } catch (e) { log }
getBaseDomainFromHost(aHost, service) ==
  LET etld == service.getBaseDomainFromHost
  IN IF etld.raised THEN Return(aHost) ELSE Return(etld.value)

\* try { suffix = eTLDService.getPublicSuffix(aURI) } catch (e) { log }
getPublicSuffix(uri, service) ==
  LET suffix == service.getPublicSuffix
  IN IF suffix.raised THEN Return(uri.host) ELSE Return(suffix.value)

searchMap ==
  [amazon |-> [path |-> "/exec/obidos/external-search?",
               query |-> "field-keywords"],
   bing |-> [path |-> "/search?", query |-> "q"],
   google |-> [path |-> "/search?", query |-> "q"],
   yahoo |-> [path |-> "/search?", query |-> "p"]]

\* The properties every object inherits from Object.prototype: functions (and
\* __proto__, an object), none of which has a property "path" or "query".
ObjectPrototype ==
  {"constructor", "toString", "toLocaleString", "valueOf", "hasOwnProperty",
   "isPrototypeOf", "propertyIsEnumerable", "toSource", "watch", "unwatch",
   "__proto__", "__defineGetter__", "__defineSetter__", "__lookupGetter__",
   "__lookupSetter__"}

\* A lookup that also takes a name that starts with a key for that key.
ProviderByPrefix(searchProvider) ==
  LET keys == {k \in DOMAIN searchMap : IndexOf(searchProvider, k) = 0}
  IN IF keys # {}
     THEN LET k == CHOOSE k \in keys : TRUE
          IN [type |-> "object", path |-> JSString(searchMap[k].path),
              query |-> JSString(searchMap[k].query)]
     ELSE [type |-> "undefined", path |-> Undefined, query |-> Undefined]

\* searchMap[searchProvider]: an own entry, an inherited property, or
\* undefined.
Provider(searchProvider) ==
  IF searchProvider \in DOMAIN searchMap
  THEN [type |-> "object",
        path |-> JSString(searchMap[searchProvider].path),
        query |-> JSString(searchMap[searchProvider].query)]
  ELSE IF searchProvider \in ObjectPrototype
  THEN [type |-> "object", path |-> Undefined, query |-> Undefined]
  ELSE [type |-> "undefined", path |-> Undefined, query |-> Undefined]

\* !x for undefined or an object.
Falsy(x) == x.type = "undefined"

\* The outcome of decoded.toLowerCase().replace("+", " "), decoded being the
\* outcome of decodeURI.
LowerAndReplace(decoded) ==
  IF decoded.raised THEN decoded
  ELSE Return(Replace(ToLowerCase(decoded.value), "+", " "))

\* Lines 88-89: decodeURI(term).toLowerCase().replace("+", " ").
Normalize(term) == LowerAndReplace(decodeURI(ToString(term)))

\* Lines 84-89: q is the outcome of querystring.parse.  Its value is an
\* object, and an object is never falsy: line 84 never returns.
TermFromQuery(q, provider) ==
  IF q.raised THEN q
  ELSE Normalize(GetParam(q.value, ToString(provider.query)))

\* TermFromPath with the prefix looked for anywhere in the path.
TermFromPathAnywhere(path, provider) ==
  IF IndexOf(path, ToString(provider.path)) = -1 THEN Return("")
  ELSE IF provider.path.type = "undefined" THEN Throw("TypeError")
  ELSE TermFromQuery(Parse(SubstrFrom(path, Len(provider.path.val))), provider)

\* Lines 76-89, once searchMap[searchProvider] is truthy.
TermFromPath(path, provider) ==
  IF IndexOf(path, ToString(provider.path)) # 0 THEN Return("")
  ELSE IF provider.path.type = "undefined" THEN Throw("TypeError")
  ELSE TermFromQuery(Parse(SubstrFrom(path, Len(provider.path.val))), provider)

\* Lines 73-89: the outcome for a derived searchProvider.
TermFromProvider(path, provider) ==
  IF Falsy(provider) THEN Return("") ELSE TermFromPath(path, provider)

\* Lines 67-89, host and publicSuffix being the strings lines 65-66 obtained:
\* the outcome with the let-variables.
TermFromHost(path, host, publicSuffix, searchProvider) ==
  IF IndexOf(host, publicSuffix) = -1
  THEN [ret |-> Return(""),
        locals |-> [host |-> host, publicSuffix |-> publicSuffix,
                    searchProvider |-> host]]
  ELSE [ret |-> TermFromProvider(path, Provider(searchProvider)),
        locals |-> [host |-> host, publicSuffix |-> publicSuffix,
                    searchProvider |-> searchProvider]]

\* The length without the 1 the "." takes.
ProviderLengthWithDot(host, publicSuffix) == Len(host) - Len(publicSuffix)

\* Line 72: host.length - publicSuffix.length - 1
ProviderLength(host, publicSuffix) == Len(host) - Len(publicSuffix) - 1

\* host and publicSuffix are the outcomes of lines 65-66.
TermFromLookups(path, host, publicSuffix) ==
  IF host.raised \/ publicSuffix.raised
  THEN [ret |-> IF host.raised THEN host ELSE publicSuffix,
        locals |-> [host |-> host.value, publicSuffix |-> publicSuffix.value,
                    searchProvider |-> host.value]]
  ELSE TermFromHost(path, host.value, publicSuffix.value,
                    Substr(host.value, 0,
                           ProviderLength(host.value, publicSuffix.value)))

\* The outcome of getSearchTermFromURI(uri) with its let-variables.
getSearchTermFromURI(uri, service) ==
  TermFromLookups(uri.path, getBaseDomainFromHost(uri.host, service),
                  getPublicSuffix(uri, service))

(***************************************************************************)
(* getHash.  The hash primitive (nsICryptoHash, SHA-256) is outside the    *)
(* module: Finish stands for it, a function of the bytes hashed that       *)
(* yields DigestLength bytes; hashSeed picks which such function answers.  *)
(***************************************************************************)
DigestLength == 32

\* converter.convertToByteArray(aString): the UTF-8 bytes of an ASCII string.
ConvertToByteArray(str) == [i \in 1..Len(str) |-> CharCodeAt(SubSeq(str, i, i))]

RECURSIVE SumOf(_)
SumOf(bytes) == IF Len(bytes) = 0 THEN 0 ELSE bytes[1] + SumOf(Tail(bytes))

\* cryptoHash.finish(false) after update(data): the digest, one byte per
\* character of the binary string returned.
Digest(sum, seed) ==
  [i \in 1..DigestLength |-> (sum * i + seed * (7 * i + 3)) % 256]

Finish(data, seed) == Digest(SumOf(data) + Len(data), seed)

\* toHexString without the padding.
UnpaddedHexString(charCode) == ToString16(charCode)

\* ("0" + charCode.toString(16)).slice(-2)
toHexString(charCode) == SliceFrom("0" \o ToString16(charCode), -2)

\* [toHexString(hash.charCodeAt(i)) for (i in hash)].join("")
HashStr(hash) == Join([i \in 1..Len(hash) |-> toHexString(hash[i])], "")

getHash(str, seed) ==
  Return(Slice(HashStr(Finish(ConvertToByteArray(str), seed)), 0, 48))

\* getHash of the outcome of getBaseDomainFromHost.
HashOf(base, seed) == IF base.raised THEN base ELSE getHash(base.value, seed)

getKeyForHost(aHost, service, seed) ==
  HashOf(getBaseDomainFromHost(aHost, service), seed)

getKeyForQuery(aQuery, seed) == getHash(aQuery, seed)

(***************************************************************************)
(* The sampled arguments.                                                  *)
(***************************************************************************)
HostLabels == {"www", "google", "co", "uk"}

\* The host names of exactly n labels.
RECURSIVE HostsOfLength(_)
HostsOfLength(n) ==
  IF n = 1 THEN HostLabels
  ELSE {l \o "." \o h : l \in HostLabels, h \in HostsOfLength(n - 1)}

\* The empty host and the host names of up to MaxLabels labels.
Hosts == {""} \cup UNION {HostsOfLength(n) : n \in 1..MaxLabels}

\* Hosts of the four providers, of near-misses of their names and of none.
ProviderHosts ==
  {"www.bing.com", "search.yahoo.com", "www.amazon.com", "www.google.co.uk",
   "google.com", "www.googles.com", "goog.com", "www.example.org",
   "constructor.com", "com"}

PathHeads ==
  {"/search?", "/exec/obidos/external-search?", "/other?", "/x/search?",
   "/search"}

QueryKeys == {"q", "p", "field-keywords"}

QueryValues ==
  {"", "test", "TeSt", "hello+world", "a+b+c", "%2B", "%252B", "%2541",
   "%25", "%"}

\* The chunks a query string goes on with after its first.
MoreChunks == {"q=b"}

\* The query strings of exactly n chunks (n = 0: the empty query string).
RECURSIVE QueriesOfLength(_)
QueriesOfLength(n) ==
  IF n = 0 THEN {""}
  ELSE IF n = 1 THEN {k \o "=" \o v : k \in QueryKeys, v \in QueryValues}
  ELSE {q \o "&" \o c : q \in QueriesOfLength(n - 1), c \in MoreChunks}

Queries == UNION {QueriesOfLength(n) : n \in 0..MaxParams}

\* A URI's path starts with "/" and holds the query string.
Paths == {h \o q : h \in PathHeads, q \in Queries}

FewPaths ==
  {"/search?q=test", "/exec/obidos/external-search?field-keywords=test"}

(***************************************************************************)
(* The state machine: the add-on calls an exported function with sampled   *)
(* arguments while the services answer; the call returns or throws; the    *)
(* caller takes the outcome.  The module keeps no state between calls.     *)
(***************************************************************************)
NoLocals == [host |-> "", publicSuffix |-> "", searchProvider |-> ""]
NoService == [getBaseDomainFromHost |-> NotAsked, getPublicSuffix |-> NotAsked]

Init ==
  /\ fn = "none"
  /\ aURI = [host |-> "", path |-> ""]
  /\ aString = ""
  /\ eTLDService = NoService
  /\ hashSeed = 0
  /\ locals = NoLocals
  /\ ret = Return("")

\* getSearchTermFromURI(uri) while the service answers as in service.
\* out is what getSearchTermFromURI(uri) yields.
Returned(uri, service, out) ==
  /\ fn' = "getSearchTermFromURI"
  /\ aURI' = uri
  /\ eTLDService' = service
  /\ ret' = out.ret
  /\ locals' = out.locals
  /\ UNCHANGED <<aString, hashSeed>>

SearchTerm(uri, service) ==
  Returned(uri, service, getSearchTermFromURI(uri, service))

CallGetSearchTermFromURI ==
  /\ fn = "none"
  /\ \/ \E h \in Hosts, p \in FewPaths :
          \E b \in BaseDomainAnswers(h), s \in PublicSuffixAnswers(h) :
            SearchTerm([host |-> h, path |-> p],
                       [getBaseDomainFromHost |-> b, getPublicSuffix |-> s])
     \/ \E h \in ProviderHosts, p \in Paths :
          \E b \in {TrueBaseDomain(h), Throw("NS_ERROR_FAILURE")},
             s \in {TruePublicSuffix(h), Throw("NS_ERROR_FAILURE")} :
            SearchTerm([host |-> h, path |-> p],
                       [getBaseDomainFromHost |-> b, getPublicSuffix |-> s])

CallGetBaseDomainFromHost ==
  /\ fn = "none"
  /\ \E h \in Hosts \cup ProviderHosts :
       \E b \in BaseDomainAnswers(h) :
         /\ fn' = "getBaseDomainFromHost"
         /\ aURI' = [host |-> h, path |-> ""]
         /\ eTLDService' = [NoService EXCEPT !.getBaseDomainFromHost = b]
         /\ ret' = getBaseDomainFromHost(h, eTLDService')
         /\ UNCHANGED <<aString, hashSeed, locals>>

CallGetPublicSuffix ==
  /\ fn = "none"
  /\ \E h \in Hosts \cup ProviderHosts, p \in FewPaths :
       \E s \in PublicSuffixAnswers(h) :
         /\ fn' = "getPublicSuffix"
         /\ aURI' = [host |-> h, path |-> p]
         /\ eTLDService' = [NoService EXCEPT !.getPublicSuffix = s]
         /\ ret' = getPublicSuffix(aURI', eTLDService')
         /\ UNCHANGED <<aString, hashSeed, locals>>

CallGetKeyForHost ==
  /\ fn = "none"
  /\ \E h \in Hosts \cup ProviderHosts, seed \in 0..MaxSeed :
       \E b \in BaseDomainAnswers(h) :
         /\ fn' = "getKeyForHost"
         /\ aURI' = [host |-> h, path |-> ""]
         /\ eTLDService' = [NoService EXCEPT !.getBaseDomainFromHost = b]
         /\ hashSeed' = seed
         /\ ret' = getKeyForHost(h, eTLDService', seed)
         /\ UNCHANGED <<aString, locals>>

CallGetKeyForQuery ==
  /\ fn = "none"
  /\ \E aQuery \in QueryValues \cup Queries, seed \in 0..MaxSeed :
       /\ fn' = "getKeyForQuery"
       /\ aString' = aQuery
       /\ hashSeed' = seed
       /\ ret' = getKeyForQuery(aQuery, seed)
       /\ UNCHANGED <<aURI, eTLDService, locals>>

\* The caller has the outcome; the module is as it was after loading.
TakeOutcome ==
  /\ fn # "none"
  /\ fn' = "none"
  /\ aURI' = [host |-> "", path |-> ""]
  /\ aString' = ""
  /\ eTLDService' = NoService
  /\ hashSeed' = 0
  /\ locals' = NoLocals
  /\ ret' = Return("")

Next ==
  \/ CallGetSearchTermFromURI
  \/ CallGetBaseDomainFromHost
  \/ CallGetPublicSuffix
  \/ CallGetKeyForHost
  \/ CallGetKeyForQuery
  \/ TakeOutcome

Spec == Init /\ [][Next]_vars

(***************************************************************************)
(* What the properties speak of.                                           *)
(***************************************************************************)
\* getSearchTermFromURI was called and has returned or thrown.
Searched == fn = "getSearchTermFromURI"

\* Line 68 found publicSuffix in host, so line 72 derived the short name.
Contained ==
  \E i \in 0..(Len(locals.host) - Len(locals.publicSuffix)) :
    SubSeq(locals.host, i + 1, i + Len(locals.publicSuffix)) = locals.publicSuffix

\* The derived short name is a key of the provider table.
Matched == Searched /\ Contained /\ locals.searchProvider \in DOMAIN searchMap

PathPrefix == searchMap[locals.searchProvider].path
QueryParam == searchMap[locals.searchProvider].query

\* s ends with t.
EndsWith(s, t) ==
  Len(t) <= Len(s) /\ SubSeq(s, Len(s) - Len(t) + 1, Len(s)) = t

\* uri.path begins with the provider's path prefix.
BeginsWithPrefix ==
  /\ Len(PathPrefix) <= Len(aURI.path)
  /\ SubSeq(aURI.path, 1, Len(PathPrefix)) = PathPrefix

\* The query string after the prefix, parsed.
Parsed == Parse(SubSeq(aURI.path, Len(PathPrefix) + 1, Len(aURI.path)))

\* The parsed query string holds the provider's query parameter.
ParamPresent ==
  /\ ~Parsed.raised
  /\ \E i \in 1..Len(Parsed.value) : Parsed.value[i].parameter = QueryParam

ParamAbsent ==
  /\ ~Parsed.raised
  /\ \A i \in 1..Len(Parsed.value) : Parsed.value[i].parameter # QueryParam

\* Both lookups of the call were answered as a working service answers.
ServiceWorks ==
  /\ eTLDService.getBaseDomainFromHost = TrueBaseDomain(aURI.host)
  /\ eTLDService.getPublicSuffix = TruePublicSuffix(aURI.host)

\* Each lookup of the call failed or was answered with the true value.
ServiceTrueOrFails ==
  /\ \/ eTLDService.getBaseDomainFromHost.raised
     \/ eTLDService.getBaseDomainFromHost = TrueBaseDomain(aURI.host)
  /\ \/ eTLDService.getPublicSuffix.raised
     \/ eTLDService.getPublicSuffix = TruePublicSuffix(aURI.host)

\* r is d with its first "+" replaced by a space and nothing else changed.
FirstPlusToSpace(d, r) ==
  IF \A j \in 1..Len(d) : SubSeq(d, j, j) # "+" THEN r = d
  ELSE \E i \in 1..Len(d) :
         /\ SubSeq(d, i, i) = "+"
         /\ \A j \in 1..(i - 1) : SubSeq(d, j, j) # "+"
         /\ r = SubSeq(d, 1, i - 1) \o " " \o SubSeq(d, i + 1, Len(d))

\* The string the hash primitive was given and the digest it answered with.
Hashed ==
  IF fn = "getKeyForQuery" THEN aString
  ELSE IF eTLDService.getBaseDomainFromHost.raised THEN aURI.host
  ELSE eTLDService.getBaseDomainFromHost.value

DigestOfCall == Finish(ConvertToByteArray(Hashed), hashSeed)

\* The value of a lowercase hexadecimal digit, -1 for any other character.
LowerHexValue(c) == IF Len(c) = 1 THEN IndexOf(HexDigits, c) ELSE -1

(***************************************************************************)
(* The properties.                                                         *)
(***************************************************************************)
\* C1: when the host resolves to a provider of the table and the path begins
\* with the provider's prefix, and the parsed query string does not hold the
\* provider's query parameter (the path "/search?" included),
\* getSearchTermFromURI returns "".
C1_AbsentParamYieldsEmpty ==
  (Matched /\ BeginsWithPrefix /\ ParamAbsent) => ret = Return("")

\* C2: getSearchTermFromURI never throws to its caller, whatever the two
\* lookups answer and whatever the query string holds.
C2_NeverRaises == Searched => ~ret.raised

C4_BaseDomainOrHost ==
  fn = "getBaseDomainFromHost" =>
    /\ ~ret.raised
    /\ ret.value = IF eTLDService.getBaseDomainFromHost.raised THEN aURI.host
                   ELSE eTLDService.getBaseDomainFromHost.value

C4_Witness ==
  /\ fn = "getBaseDomainFromHost"
  /\ aURI.host = ""
  /\ eTLDService.getBaseDomainFromHost.raised
  /\ ret = Return("")

\* C5: getPublicSuffix never throws: it returns the service's answer when the
\* lookup succeeds and uri.host unchanged when the lookup fails.
C5_PublicSuffixOrHost ==
  fn = "getPublicSuffix" =>
    /\ ~ret.raised
    /\ ret.value = IF eTLDService.getPublicSuffix.raised THEN aURI.host
                   ELSE eTLDService.getPublicSuffix.value

C5_Witness ==
  /\ fn = "getPublicSuffix"
  /\ aURI.host = "www.google.co.uk"
  /\ eTLDService.getPublicSuffix.raised
  /\ ret = Return("www.google.co.uk")

\* C6: the provider table is matched by the exact short name: when the
\* derived short name is none of amazon, bing, google, yahoo (a prefix or an
\* extension of one, or the name of an inherited property such as
\* "constructor" or "toString", included), getSearchTermFromURI returns ""
\* for every path.
C6_UnknownProviderYieldsEmpty ==
  (Searched /\ Contained
     /\ locals.searchProvider \notin {"amazon", "bing", "google", "yahoo"})
    => ret = Return("")

C6_Witness ==
  /\ Searched
  /\ Contained
  /\ locals.searchProvider \in {"constructor", "toString", "googles", "goog"}
  /\ \E q \in Queries : aURI.path = "/search?" \o q
  /\ ret = Return("")

\* C7: when the short name is in the provider table and uri.path does not
\* begin, at position 0, with the provider's path prefix (the prefix later in
\* the path, or a path without "?", included), getSearchTermFromURI returns "".
C7_PrefixMismatchYieldsEmpty ==
  (Matched /\ ~BeginsWithPrefix) => ret = Return("")

C7_Witness ==
  /\ Matched
  /\ aURI.path = "/x/search?q=test"
  /\ ret = Return("")

\* C8: getKeyForHost(h) is getHash of what getBaseDomainFromHost(h) returns
\* (h itself when the lookup fails), and the result of getHash is exactly 48
\* lowercase hexadecimal digits that encode the first 24 bytes of the digest
\* in order, two digits a byte.
C8_KeyIsHexOfDigest ==
  (fn \in {"getKeyForHost", "getKeyForQuery"}) =>
    /\ ~ret.raised
    /\ ret = getHash(Hashed, hashSeed)
    /\ Len(ret.value) = 48
    /\ LET digest == DigestOfCall
       IN \A i \in 1..24 :
            /\ LowerHexValue(SubSeq(ret.value, 2 * i - 1, 2 * i - 1)) # -1
            /\ LowerHexValue(SubSeq(ret.value, 2 * i, 2 * i)) # -1
            /\ 16 * LowerHexValue(SubSeq(ret.value, 2 * i - 1, 2 * i - 1))
                 + LowerHexValue(SubSeq(ret.value, 2 * i, 2 * i))
               = digest[i]

C8_Witness ==
  /\ fn = "getKeyForHost"
  /\ eTLDService.getBaseDomainFromHost.raised
  /\ aURI.host = "www.google.co.uk"
  /\ Len(ret.value) = 48
  /\ LET digest == DigestOfCall
     IN \E i \in 1..24 : digest[i] > 0 /\ digest[i] < 16

\* C9: when the resolved host is empty or equal to the resolved public suffix
\* (both lookups failing included), the short name is the empty string and
\* getSearchTermFromURI returns "" for every path, without throwing.
C9_HostIsSuffixYieldsEmpty ==
  (Searched /\ (locals.host = "" \/ locals.host = locals.publicSuffix)) =>
    /\ locals.searchProvider = ""
    /\ ret = Return("")

C9_Witness ==
  /\ Searched
  /\ eTLDService.getBaseDomainFromHost.raised
  /\ eTLDService.getPublicSuffix.raised
  /\ aURI.host = "www.google.co.uk"
  /\ locals.host = locals.publicSuffix
  /\ locals.searchProvider = ""
  /\ ret = Return("")

\* C10: when each lookup either fails or answers with the true base domain or
\* public suffix of uri.host: if the suffix is found in the host, the host is
\* the suffix or ends with "." and the suffix, and the short name is the host
\* without that ending (no label is cut); if the suffix is not found in the
\* host, the result is "".
C10_ShortNameIsHostMinusDotSuffix ==
  (Searched /\ ServiceTrueOrFails) =>
    /\ Contained =>
         \/ locals.host = locals.publicSuffix /\ locals.searchProvider = ""
         \/ /\ EndsWith(locals.host, "." \o locals.publicSuffix)
            /\ locals.searchProvider \o "." \o locals.publicSuffix = locals.host
    /\ ~Contained => ret = Return("")

C10_Witness ==
  /\ Searched
  /\ eTLDService.getBaseDomainFromHost.raised
  /\ eTLDService.getPublicSuffix = Return("co.uk")
  /\ locals.host = "www.google.co.uk"
  /\ Contained
  /\ locals.searchProvider = "www.google"

====
